---- MODULE Spec2Model ----
(***************************************************************************)
(* CopyOnWriteUnionFs (union_cow.go): a union filesystem made of a read    *)
(* only base and a writable layer (the overlay).  The two filesystems, the *)
(* byte-copy helper, IsDir and the UnionFile handle are collaborators of   *)
(* the type; they are modelled here as small in-memory filesystems over a  *)
(* fixed tree of paths.                                                    *)
(***************************************************************************)
EXTENDS Integers, Sequences, FiniteSets, TLC

\* ------------------------------------------------------------------ bounds
\* File contents are 0..MaxContent (0 is the empty file), permission bits are
\* 0..MaxMode and modification times are 0..MaxTime.
MaxContent == 1
MaxMode == 1
MaxTime == 1

Contents == 0..MaxContent
Modes == 0..MaxMode
Times == 0..MaxTime

\* ------------------------------------------------------------------- paths
\* A directory /d with two possible children.  The root is always a directory
\* and is not an entry of the model.
Paths == {"/d", "/d/x", "/d/y"}
PathSeq == <<"/d", "/d/x", "/d/y">>

Parent(p) == IF p = "/d" THEN "/" ELSE "/d"
Ancestors(p) == IF p = "/d" THEN {} ELSE {"/d"}
Children(p) == {q \in Paths : Parent(q) = p}
Descendants(p) == {q \in Paths : p \in Ancestors(q)}

\* ----------------------------------------------------------------- entries
None == [kind |-> "none"]
Dir == [kind |-> "dir"]
FileEntry(c, m, t) == [kind |-> "file", content |-> c, mode |-> m, mtime |-> t]
Files == {FileEntry(c, m, t) : c \in Contents, m \in Modes, t \in Times}
Entries == {None, Dir} \cup Files

\* A filesystem is a function from paths to entries in which every entry has
\* directories for ancestors.
WellFormed(fs) == \A p \in Paths : fs[p] # None => \A a \in Ancestors(p) : fs[a] = Dir
FsStates == {fs \in [Paths -> Entries] : WellFormed(fs)}
EmptyFs == [p \in Paths |-> None]

\* The bases the model starts from: files are not empty, were never touched,
\* and have no or all permission bits.
BaseFiles == {FileEntry(MaxContent, m, 0) : m \in {0, MaxMode}}
BaseStates == {fs \in [Paths -> {None, Dir} \cup BaseFiles] : WellFormed(fs)}

\* ------------------------------------------------------------------ errors
\* nil and the errno values the code names (syscall.ENOENT, EPERM, EEXIST) or
\* a collaborator can answer with.
Errors == {"ENOENT", "EPERM", "EEXIST", "EIO", "EISDIR", "ENOTDIR", "ENOTEMPTY", "EINVAL"}

\* The condition of a filesystem while one operation runs: "ok", "stat" (its
\* lookups fail with EIO, every other call works), "data" (its files cannot be
\* opened, read or written: Open, OpenFile and Create fail with EIO) or "io"
\* (every call fails with EIO).
Faults == {"ok", "stat", "data", "io"}
\* At most one of the two filesystems is out of order while an operation runs:
\* <<condition of the base, condition of the layer>>.
FaultPairs == {f \in Faults \X Faults : f[1] = "ok" \/ f[2] = "ok"}

\* os.O_* flags, a flag word being the set of the bits set in it.
MutatingFlags == {"O_WRONLY", "O_RDWR", "O_APPEND", "O_CREATE", "O_TRUNC"}
OpenFlags ==
  { {}, {"O_SYNC"}, {"O_WRONLY"}, {"O_RDWR"}, {"O_APPEND"}, {"O_CREATE"},
    {"O_TRUNC"}, {"O_RDWR", "O_CREATE", "O_TRUNC"} }

\* ------------------------------------------------- the Fs capability (Fs)
AncestorIsFile(fs, name) == \E a \in Ancestors(name) : fs[a].kind = "file"
WithAncestors(fs, name) ==
  [p \in Paths |-> IF p \in Ancestors(name) /\ fs[p] = None THEN Dir ELSE fs[p]]
HasChildren(fs, name) == \E c \in Children(name) : fs[c] # None

FsStat(fs, fault, name) ==
  IF fault \in {"stat", "io"} THEN [err |-> "EIO", info |-> None]
  ELSE IF fs[name] = None THEN [err |-> "ENOENT", info |-> None]
  ELSE [err |-> "nil", info |-> fs[name]]

FsOpen(fs, fault, name) ==
  IF fault \in {"data", "io"} THEN "EIO"
  ELSE IF fs[name] = None THEN "ENOENT"
  ELSE "nil"

FsOpenFile(fs, fault, name, flag, perm, now) ==
  IF fault \in {"data", "io"} THEN [fs |-> fs, err |-> "EIO"]
  ELSE IF AncestorIsFile(fs, name) THEN [fs |-> fs, err |-> "ENOTDIR"]
  ELSE IF fs[name] = None THEN
    IF "O_CREATE" \in flag
    THEN [fs |-> [WithAncestors(fs, name) EXCEPT ![name] = FileEntry(0, perm, now)],
          err |-> "nil"]
    ELSE [fs |-> fs, err |-> "ENOENT"]
  ELSE IF {"O_CREATE", "O_EXCL"} \subseteq flag THEN [fs |-> fs, err |-> "EEXIST"]
  ELSE IF fs[name] = Dir THEN
    IF flag \cap {"O_WRONLY", "O_RDWR", "O_CREATE", "O_TRUNC"} # {}
    THEN [fs |-> fs, err |-> "EISDIR"]
    ELSE [fs |-> fs, err |-> "nil"]
  ELSE IF "O_TRUNC" \in flag
    THEN [fs |-> [fs EXCEPT ![name].content = 0, ![name].mtime = now], err |-> "nil"]
    ELSE [fs |-> fs, err |-> "nil"]

\* Create is OpenFile(name, O_RDWR|O_CREATE|O_TRUNC, 0666).
CreatePerm == MaxMode
FsCreate(fs, fault, name, now) ==
  FsOpenFile(fs, fault, name, {"O_RDWR", "O_CREATE", "O_TRUNC"}, CreatePerm, now)

FsRemove(fs, fault, name) ==
  IF fault = "io" THEN [fs |-> fs, err |-> "EIO"]
  ELSE IF fs[name] = None THEN [fs |-> fs, err |-> "ENOENT"]
  ELSE IF HasChildren(fs, name) THEN [fs |-> fs, err |-> "ENOTEMPTY"]
  ELSE [fs |-> [fs EXCEPT ![name] = None], err |-> "nil"]

FsRemoveAll(fs, fault, name) ==
  IF fault = "io" THEN [fs |-> fs, err |-> "EIO"]
  ELSE IF fs[name] = None THEN [fs |-> fs, err |-> "ENOENT"]
  ELSE [fs |-> [p \in Paths |-> IF p = name \/ p \in Descendants(name) THEN None ELSE fs[p]],
        err |-> "nil"]

FsRename(fs, fault, oldname, newname) ==
  IF fault = "io" THEN [fs |-> fs, err |-> "EIO"]
  ELSE IF fs[oldname] = None THEN [fs |-> fs, err |-> "ENOENT"]
  ELSE IF oldname = newname THEN [fs |-> fs, err |-> "nil"]
  ELSE IF newname \in Descendants(oldname) THEN [fs |-> fs, err |-> "EINVAL"]
  ELSE IF oldname \in Descendants(newname) THEN [fs |-> fs, err |-> "ENOTEMPTY"]
  ELSE IF AncestorIsFile(fs, newname) THEN [fs |-> fs, err |-> "ENOTDIR"]
  ELSE IF fs[oldname] = Dir /\ fs[newname].kind = "file" THEN [fs |-> fs, err |-> "ENOTDIR"]
  ELSE IF fs[oldname].kind = "file" /\ fs[newname] = Dir THEN [fs |-> fs, err |-> "EISDIR"]
  ELSE [fs |-> [WithAncestors(fs, newname) EXCEPT ![newname] = fs[oldname], ![oldname] = None],
        err |-> "nil"]

FsChtimes(fs, fault, name, mtime) ==
  IF fault = "io" THEN [fs |-> fs, err |-> "EIO"]
  ELSE IF fs[name] = None THEN [fs |-> fs, err |-> "ENOENT"]
  ELSE IF fs[name] = Dir THEN [fs |-> fs, err |-> "nil"]
  ELSE [fs |-> [fs EXCEPT ![name].mtime = mtime], err |-> "nil"]

FsChmod(fs, fault, name, mode) ==
  IF fault = "io" THEN [fs |-> fs, err |-> "EIO"]
  ELSE IF fs[name] = None THEN [fs |-> fs, err |-> "ENOENT"]
  ELSE IF fs[name] = Dir THEN [fs |-> fs, err |-> "nil"]
  ELSE [fs |-> [fs EXCEPT ![name].mode = mode], err |-> "nil"]

FsMkdirAll(fs, fault, name, perm) ==
  IF fault = "io" THEN [fs |-> fs, err |-> "EIO"]
  ELSE IF AncestorIsFile(fs, name) \/ fs[name].kind = "file"
    THEN [fs |-> fs, err |-> "ENOTDIR"]
  ELSE [fs |-> [WithAncestors(fs, name) EXCEPT ![name] = Dir], err |-> "nil"]

\* IsDir(fs, path): Stat, then FileInfo.IsDir.
IsDir(fs, fault, name) ==
  LET s == FsStat(fs, fault, name)
  IN IF s.err # "nil" THEN [dir |-> FALSE, err |-> s.err]
     ELSE [dir |-> s.info = Dir, err |-> "nil"]

\* The byte-copy helper copyToLayer(base, layer, name): opens the base entry
\* and writes an equivalent entry (content, permission bits, modification
\* time) into the layer, a directory by the layer's MkdirAll, a file by
\* creating it and writing to it; a failure leaves the layer as it was.
copyBaseToLayer(b, l, bfault, lfault, name) ==
  LET o == FsOpen(b, bfault, name)
  IN IF o # "nil" THEN [layer |-> l, err |-> o]
     ELSE IF lfault \in {"data", "io"} THEN [layer |-> l, err |-> "EIO"]
     ELSE IF AncestorIsFile(l, name) THEN [layer |-> l, err |-> "ENOTDIR"]
     ELSE IF b[name] = Dir /\ l[name].kind = "file" THEN [layer |-> l, err |-> "ENOTDIR"]
     ELSE IF b[name].kind = "file" /\ l[name] = Dir THEN [layer |-> l, err |-> "EISDIR"]
     ELSE [layer |-> [WithAncestors(l, name) EXCEPT ![name] = b[name]], err |-> "nil"]

\* ------------------------------------------------- CopyOnWriteUnionFs
\* What one operation of the union returns to its caller and leaves behind:
\* the two filesystems, the error ("nil" for none), the collaborator calls it
\* made in order, each with the error it answered, and the handle it returns.
NoHandle == [type |-> "nil"]
FileHandle(side, name) == [type |-> "File", fs |-> side, name |-> name]
UnionFile(name, bfile, lfile) ==
  [type |-> "UnionFile", name |-> name, base |-> bfile, layer |-> lfile]
Ret(b, l, err, calls, handle) ==
  [base |-> b, layer |-> l, err |-> err, calls |-> calls, handle |-> handle]

\* The mutant of the classification: it asks the base first.
isBaseFile_BaseFirst(b, l, bfault, lfault, name) ==
  LET bs == FsStat(b, bfault, name)
  IN IF bs.err = "nil"
     THEN [b |-> TRUE, err |-> "nil", calls |-> << <<"base.Stat", "nil">> >>]
     ELSE LET ls == FsStat(l, lfault, name)
          IN [b |-> ls.err # "nil", err |-> IF ls.err = "nil" THEN "nil" ELSE bs.err,
              calls |-> << <<"base.Stat", bs.err>>, <<"layer.Stat", ls.err>> >>]

isBaseFile(b, l, bfault, lfault, name) ==
  LET ls == FsStat(l, lfault, name)
  IN IF ls.err = "nil"
     THEN [b |-> FALSE, err |-> "nil", calls |-> << <<"layer.Stat", "nil">> >>]
     ELSE LET bs == FsStat(b, bfault, name)
          IN [b |-> TRUE, err |-> bs.err,
              calls |-> << <<"layer.Stat", ls.err>>, <<"base.Stat", bs.err>> >>]

copyToLayer(b, l, bfault, lfault, name) == copyBaseToLayer(b, l, bfault, lfault, name)

\* Chtimes that takes the entry out of the layer again when it has become
\* equal to the base's.
Chtimes_Dematerialize(b, l, bfault, lfault, name, mtime) ==
  LET c == isBaseFile(b, l, bfault, lfault, name)
  IN IF c.err # "nil" THEN Ret(b, l, c.err, c.calls, NoHandle)
     ELSE LET m == IF c.b THEN copyToLayer(b, l, bfault, lfault, name)
                   ELSE [layer |-> l, err |-> "nil"]
              calls == IF c.b THEN Append(c.calls, <<"copyToLayer", m.err>>) ELSE c.calls
          IN IF m.err # "nil" THEN Ret(b, m.layer, m.err, calls, NoHandle)
             ELSE LET r == FsChtimes(m.layer, lfault, name, mtime)
                      d == IF r.err = "nil" /\ r.fs[name] = b[name]
                           THEN FsRemove(r.fs, lfault, name) ELSE r
                  IN Ret(b, d.fs, r.err, Append(calls, <<"layer.Chtimes", r.err>>), NoHandle)

Chtimes(b, l, bfault, lfault, name, mtime) ==
  LET c == isBaseFile(b, l, bfault, lfault, name)
  IN IF c.err # "nil" THEN Ret(b, l, c.err, c.calls, NoHandle)
     ELSE LET m == IF c.b THEN copyToLayer(b, l, bfault, lfault, name)
                   ELSE [layer |-> l, err |-> "nil"]
              calls == IF c.b THEN Append(c.calls, <<"copyToLayer", m.err>>) ELSE c.calls
          IN IF m.err # "nil" THEN Ret(b, m.layer, m.err, calls, NoHandle)
             ELSE LET r == FsChtimes(m.layer, lfault, name, mtime)
                  IN Ret(b, r.fs, r.err, Append(calls, <<"layer.Chtimes", r.err>>), NoHandle)

Chmod(b, l, bfault, lfault, name, mode) ==
  LET c == isBaseFile(b, l, bfault, lfault, name)
  IN IF c.err # "nil" THEN Ret(b, l, c.err, c.calls, NoHandle)
     ELSE LET m == IF c.b THEN copyToLayer(b, l, bfault, lfault, name)
                   ELSE [layer |-> l, err |-> "nil"]
              calls == IF c.b THEN Append(c.calls, <<"copyToLayer", m.err>>) ELSE c.calls
          IN IF m.err # "nil" THEN Ret(b, m.layer, m.err, calls, NoHandle)
             ELSE LET r == FsChmod(m.layer, lfault, name, mode)
                  IN Ret(b, r.fs, r.err, Append(calls, <<"layer.Chmod", r.err>>), NoHandle)

\* Stat returns the FileInfo as well: it is the handle field of the result.
StatInfo(side, info) == [type |-> "FileInfo", fs |-> side, info |-> info]
\* Stat that falls back to the base on every error of the layer.
Stat_AnyError(b, l, bfault, lfault, name) ==
  LET ls == FsStat(l, lfault, name)
  IN IF ls.err = "nil"
       THEN Ret(b, l, "nil", << <<"layer.Stat", "nil">> >>, StatInfo("layer", ls.info))
     ELSE LET bs == FsStat(b, bfault, name)
          IN Ret(b, l, bs.err, << <<"layer.Stat", ls.err>>, <<"base.Stat", bs.err>> >>,
                 IF bs.err = "nil" THEN StatInfo("base", bs.info) ELSE NoHandle)

Stat(b, l, bfault, lfault, name) ==
  LET ls == FsStat(l, lfault, name)
  IN IF ls.err = "nil"
       THEN Ret(b, l, "nil", << <<"layer.Stat", "nil">> >>, StatInfo("layer", ls.info))
     ELSE IF ls.err = "ENOENT"
       THEN LET bs == FsStat(b, bfault, name)
            IN Ret(b, l, bs.err, << <<"layer.Stat", ls.err>>, <<"base.Stat", bs.err>> >>,
                   IF bs.err = "nil" THEN StatInfo("base", bs.info) ELSE NoHandle)
     ELSE Ret(b, l, ls.err, << <<"layer.Stat", ls.err>> >>, NoHandle)

\* Rename that copies a BaseOnly path into the layer and renames the copy.
Rename_CopyThenRename(b, l, bfault, lfault, oldname, newname) ==
  LET c == isBaseFile(b, l, bfault, lfault, oldname)
  IN IF c.err # "nil" THEN Ret(b, l, c.err, c.calls, NoHandle)
     ELSE LET m == IF c.b THEN copyToLayer(b, l, bfault, lfault, oldname)
                   ELSE [layer |-> l, err |-> "nil"]
              calls == IF c.b THEN Append(c.calls, <<"copyToLayer", m.err>>) ELSE c.calls
          IN IF m.err # "nil" THEN Ret(b, m.layer, m.err, calls, NoHandle)
             ELSE LET r == FsRename(m.layer, lfault, oldname, newname)
                  IN Ret(b, r.fs, r.err, Append(calls, <<"layer.Rename", r.err>>), NoHandle)

Rename(b, l, bfault, lfault, oldname, newname) ==
  LET c == isBaseFile(b, l, bfault, lfault, oldname)
  IN IF c.err # "nil" THEN Ret(b, l, c.err, c.calls, NoHandle)
     ELSE IF c.b THEN Ret(b, l, "EPERM", c.calls, NoHandle)
     ELSE LET r == FsRename(l, lfault, oldname, newname)
          IN Ret(b, r.fs, r.err, Append(c.calls, <<"layer.Rename", r.err>>), NoHandle)

\* Remove that protects every path the base has, in the layer or not.
Remove_BaseFirst(b, l, bfault, lfault, name) ==
  LET bs == FsStat(b, bfault, name)
  IN IF bs.err = "nil" THEN Ret(b, l, "EPERM", << <<"base.Stat", bs.err>> >>, NoHandle)
     ELSE LET r == FsRemove(l, lfault, name)
          IN Ret(b, r.fs, r.err, << <<"base.Stat", bs.err>>, <<"layer.Remove", r.err>> >>,
                 NoHandle)

Remove(b, l, bfault, lfault, name) ==
  LET r == FsRemove(l, lfault, name)
  IN IF r.err = "ENOENT"
     THEN LET bs == FsStat(b, bfault, name)
              calls == << <<"layer.Remove", r.err>>, <<"base.Stat", bs.err>> >>
          IN IF bs.err = "nil" THEN Ret(b, r.fs, "EPERM", calls, NoHandle)
             ELSE Ret(b, r.fs, "ENOENT", calls, NoHandle)
     ELSE Ret(b, r.fs, r.err, << <<"layer.Remove", r.err>> >>, NoHandle)

RemoveAll(b, l, bfault, lfault, name) ==
  LET r == FsRemoveAll(l, lfault, name)
  IN IF r.err = "ENOENT"
     THEN LET bs == FsStat(b, bfault, name)
              calls == << <<"layer.RemoveAll", r.err>>, <<"base.Stat", bs.err>> >>
          IN IF bs.err = "nil" THEN Ret(b, r.fs, "EPERM", calls, NoHandle)
             ELSE Ret(b, r.fs, "ENOENT", calls, NoHandle)
     ELSE Ret(b, r.fs, r.err, << <<"layer.RemoveAll", r.err>> >>, NoHandle)

\* OpenFile without the copy: a write to a BaseOnly path opens the base.
OpenFile_WritesBase(b, l, bfault, lfault, name, flag, perm, now) ==
  LET c == isBaseFile(b, l, bfault, lfault, name)
  IN IF c.err # "nil" THEN Ret(b, l, c.err, c.calls, NoHandle)
     ELSE IF c.b
       THEN LET r == FsOpenFile(b, bfault, name, flag, perm, now)
            IN Ret(r.fs, l, r.err, Append(c.calls, <<"base.OpenFile", r.err>>),
                   IF r.err = "nil" THEN FileHandle("base", name) ELSE NoHandle)
     ELSE LET r == FsOpenFile(l, lfault, name, flag, perm, now)
          IN Ret(b, r.fs, r.err, Append(c.calls, <<"layer.OpenFile", r.err>>),
                 IF r.err = "nil" THEN FileHandle("layer", name) ELSE NoHandle)

\* OpenFile with os.O_APPEND missing from the mask of the mutating flags.
OpenFile_AppendReadOnly(b, l, bfault, lfault, name, flag, perm, now) ==
  LET c == isBaseFile(b, l, bfault, lfault, name)
  IN IF c.err # "nil" THEN Ret(b, l, c.err, c.calls, NoHandle)
     ELSE IF flag \cap (MutatingFlags \ {"O_APPEND"}) # {}
       THEN LET m == IF c.b THEN copyToLayer(b, l, bfault, lfault, name)
                     ELSE [layer |-> l, err |-> "nil"]
                calls == IF c.b THEN Append(c.calls, <<"copyToLayer", m.err>>) ELSE c.calls
            IN IF m.err # "nil" THEN Ret(b, m.layer, m.err, calls, NoHandle)
               ELSE LET r == FsOpenFile(m.layer, lfault, name, flag, perm, now)
                    IN Ret(b, r.fs, r.err, Append(calls, <<"layer.OpenFile", r.err>>),
                           IF r.err = "nil" THEN FileHandle("layer", name) ELSE NoHandle)
     ELSE IF c.b
       THEN LET r == FsOpenFile(b, bfault, name, flag, perm, now)
            IN Ret(r.fs, l, r.err, Append(c.calls, <<"base.OpenFile", r.err>>),
                   IF r.err = "nil" THEN FileHandle("base", name) ELSE NoHandle)
     ELSE LET r == FsOpenFile(l, lfault, name, flag, perm, now)
          IN Ret(b, r.fs, r.err, Append(c.calls, <<"layer.OpenFile", r.err>>),
                 IF r.err = "nil" THEN FileHandle("layer", name) ELSE NoHandle)

\* OpenFile that materializes a BaseOnly path whatever the flags.
OpenFile_CopyOnRead(b, l, bfault, lfault, name, flag, perm, now) ==
  LET c == isBaseFile(b, l, bfault, lfault, name)
  IN IF c.err # "nil" THEN Ret(b, l, c.err, c.calls, NoHandle)
     ELSE LET m == IF c.b THEN copyToLayer(b, l, bfault, lfault, name)
                   ELSE [layer |-> l, err |-> "nil"]
              calls == IF c.b THEN Append(c.calls, <<"copyToLayer", m.err>>) ELSE c.calls
          IN IF m.err # "nil" THEN Ret(b, m.layer, m.err, calls, NoHandle)
             ELSE LET r == FsOpenFile(m.layer, lfault, name, flag, perm, now)
                  IN Ret(b, r.fs, r.err, Append(calls, <<"layer.OpenFile", r.err>>),
                         IF r.err = "nil" THEN FileHandle("layer", name) ELSE NoHandle)

\* OpenFile that creates, with O_CREATE, a file neither filesystem has.
OpenFile_CreateNew(b, l, bfault, lfault, name, flag, perm, now) ==
  LET c == isBaseFile(b, l, bfault, lfault, name)
  IN IF c.err # "nil" /\ "O_CREATE" \notin flag THEN Ret(b, l, c.err, c.calls, NoHandle)
     ELSE IF flag \cap MutatingFlags # {}
       THEN LET m == IF c.b /\ c.err = "nil" THEN copyToLayer(b, l, bfault, lfault, name)
                     ELSE [layer |-> l, err |-> "nil"]
                calls == IF c.b /\ c.err = "nil"
                         THEN Append(c.calls, <<"copyToLayer", m.err>>) ELSE c.calls
            IN IF m.err # "nil" THEN Ret(b, m.layer, m.err, calls, NoHandle)
               ELSE LET r == FsOpenFile(m.layer, lfault, name, flag, perm, now)
                    IN Ret(b, r.fs, r.err, Append(calls, <<"layer.OpenFile", r.err>>),
                           IF r.err = "nil" THEN FileHandle("layer", name) ELSE NoHandle)
     ELSE IF c.b
       THEN LET r == FsOpenFile(b, bfault, name, flag, perm, now)
            IN Ret(r.fs, l, r.err, Append(c.calls, <<"base.OpenFile", r.err>>),
                   IF r.err = "nil" THEN FileHandle("base", name) ELSE NoHandle)
     ELSE LET r == FsOpenFile(l, lfault, name, flag, perm, now)
          IN Ret(b, r.fs, r.err, Append(c.calls, <<"layer.OpenFile", r.err>>),
                 IF r.err = "nil" THEN FileHandle("layer", name) ELSE NoHandle)

OpenFile(b, l, bfault, lfault, name, flag, perm, now) ==
  LET c == isBaseFile(b, l, bfault, lfault, name)
  IN IF c.err # "nil" THEN Ret(b, l, c.err, c.calls, NoHandle)
     ELSE IF flag \cap MutatingFlags # {}
       THEN LET m == IF c.b THEN copyToLayer(b, l, bfault, lfault, name)
                     ELSE [layer |-> l, err |-> "nil"]
                calls == IF c.b THEN Append(c.calls, <<"copyToLayer", m.err>>) ELSE c.calls
            IN IF m.err # "nil" THEN Ret(b, m.layer, m.err, calls, NoHandle)
               ELSE LET r == FsOpenFile(m.layer, lfault, name, flag, perm, now)
                    IN Ret(b, r.fs, r.err, Append(calls, <<"layer.OpenFile", r.err>>),
                           IF r.err = "nil" THEN FileHandle("layer", name) ELSE NoHandle)
     ELSE IF c.b
       THEN LET r == FsOpenFile(b, bfault, name, flag, perm, now)
            IN Ret(r.fs, l, r.err, Append(c.calls, <<"base.OpenFile", r.err>>),
                   IF r.err = "nil" THEN FileHandle("base", name) ELSE NoHandle)
     ELSE LET r == FsOpenFile(l, lfault, name, flag, perm, now)
          IN Ret(b, r.fs, r.err, Append(c.calls, <<"layer.OpenFile", r.err>>),
                 IF r.err = "nil" THEN FileHandle("layer", name) ELSE NoHandle)

\* Open that opens a directory of the layer on the layer alone.
Open_LayerOnly(b, l, bfault, lfault, name) ==
  LET c == isBaseFile(b, l, bfault, lfault, name)
  IN IF c.err # "nil" THEN Ret(b, l, c.err, c.calls, NoHandle)
     ELSE IF c.b
       THEN LET o == FsOpen(b, bfault, name)
            IN Ret(b, l, o, Append(c.calls, <<"base.Open", o>>),
                   IF o = "nil" THEN FileHandle("base", name) ELSE NoHandle)
     ELSE LET o == FsOpen(l, lfault, name)
          IN Ret(b, l, o, Append(c.calls, <<"layer.Open", o>>),
                 IF o = "nil" THEN FileHandle("layer", name) ELSE NoHandle)

\* Open that returns the error of the base's Open of a merged directory.
Open_BaseErrorFatal(b, l, bfault, lfault, name) ==
  LET c == isBaseFile(b, l, bfault, lfault, name)
  IN IF c.err # "nil" THEN Ret(b, l, c.err, c.calls, NoHandle)
     ELSE IF c.b
       THEN LET o == FsOpen(b, bfault, name)
            IN Ret(b, l, o, Append(c.calls, <<"base.Open", o>>),
                   IF o = "nil" THEN FileHandle("base", name) ELSE NoHandle)
     ELSE LET d == IsDir(l, lfault, name)
              calls == Append(c.calls, <<"IsDir(layer)", d.err>>)
          IN IF d.err # "nil" THEN Ret(b, l, d.err, calls, NoHandle)
             ELSE IF ~d.dir
               THEN LET o == FsOpen(l, lfault, name)
                    IN Ret(b, l, o, Append(calls, <<"layer.Open", o>>),
                           IF o = "nil" THEN FileHandle("layer", name) ELSE NoHandle)
             ELSE LET bo == FsOpen(b, bfault, name)
                      lo == FsOpen(l, lfault, name)
                      calls2 == calls \o << <<"base.Open", bo>>, <<"layer.Open", lo>> >>
                  IN IF bo \notin {"nil", "ENOENT"} THEN Ret(b, l, bo, calls2, NoHandle)
                     ELSE IF lo # "nil" /\ bo # "nil" THEN Ret(b, l, lo, calls2, NoHandle)
                     ELSE Ret(b, l, "nil", calls2, UnionFile(name, bo = "nil", lo = "nil"))

Open(b, l, bfault, lfault, name) ==
  LET c == isBaseFile(b, l, bfault, lfault, name)
  IN IF c.err # "nil" THEN Ret(b, l, c.err, c.calls, NoHandle)
     ELSE IF c.b
       THEN LET o == FsOpen(b, bfault, name)
            IN Ret(b, l, o, Append(c.calls, <<"base.Open", o>>),
                   IF o = "nil" THEN FileHandle("base", name) ELSE NoHandle)
     ELSE LET d == IsDir(l, lfault, name)
              calls == Append(c.calls, <<"IsDir(layer)", d.err>>)
          IN IF d.err # "nil" THEN Ret(b, l, d.err, calls, NoHandle)
             ELSE IF ~d.dir
               THEN LET o == FsOpen(l, lfault, name)
                    IN Ret(b, l, o, Append(calls, <<"layer.Open", o>>),
                           IF o = "nil" THEN FileHandle("layer", name) ELSE NoHandle)
             ELSE LET bo == FsOpen(b, bfault, name)
                      lo == FsOpen(l, lfault, name)
                      calls2 == calls \o << <<"base.Open", bo>>, <<"layer.Open", lo>> >>
                  IN IF lo # "nil" /\ bo # "nil" THEN Ret(b, l, lo, calls2, NoHandle)
                     ELSE Ret(b, l, "nil", calls2, UnionFile(name, bo = "nil", lo = "nil"))

\* Mkdir without the look at the base.
Mkdir_NoBaseCheck(b, l, bfault, lfault, name, perm) ==
  LET r == FsMkdirAll(l, lfault, name, perm)
  IN Ret(b, r.fs, r.err, << <<"layer.MkdirAll", r.err>> >>, NoHandle)

\* Mkdir that creates the one directory and fails where its parent is missing.
Mkdir_NonRecursive(b, l, bfault, lfault, name, perm) ==
  LET d == IsDir(b, bfault, name)
      calls == << <<"IsDir(base)", d.err>> >>
      r == IF lfault # "io" /\ (\E a \in Ancestors(name) : l[a] = None)
           THEN [fs |-> l, err |-> "ENOENT"]
           ELSE FsMkdirAll(l, lfault, name, perm)
  IN IF d.err = "nil" /\ d.dir THEN Ret(b, l, "EEXIST", calls, NoHandle)
     ELSE Ret(b, r.fs, r.err, Append(calls, <<"layer.Mkdir", r.err>>), NoHandle)

Mkdir(b, l, bfault, lfault, name, perm) ==
  LET d == IsDir(b, bfault, name)
      calls == << <<"IsDir(base)", d.err>> >>
  IN IF d.err # "nil"
       THEN LET r == FsMkdirAll(l, lfault, name, perm)
            IN Ret(b, r.fs, r.err, Append(calls, <<"layer.MkdirAll", r.err>>), NoHandle)
     ELSE IF d.dir THEN Ret(b, l, "EEXIST", calls, NoHandle)
     ELSE LET r == FsMkdirAll(l, lfault, name, perm)
          IN Ret(b, r.fs, r.err, Append(calls, <<"layer.MkdirAll", r.err>>), NoHandle)

MkdirAll(b, l, bfault, lfault, name, perm) ==
  LET d == IsDir(b, bfault, name)
      calls == << <<"IsDir(base)", d.err>> >>
  IN IF d.err # "nil"
       THEN LET r == FsMkdirAll(l, lfault, name, perm)
            IN Ret(b, r.fs, r.err, Append(calls, <<"layer.MkdirAll", r.err>>), NoHandle)
     ELSE IF d.dir THEN Ret(b, l, "EEXIST", calls, NoHandle)
     ELSE LET r == FsMkdirAll(l, lfault, name, perm)
          IN Ret(b, r.fs, r.err, Append(calls, <<"layer.MkdirAll", r.err>>), NoHandle)

\* Create that removes the layer's entry before it creates the file anew.
Create_RemoveFirst(b, l, bfault, lfault, name, now) ==
  LET c == isBaseFile(b, l, bfault, lfault, name)
      m == IF c.err = "nil" /\ c.b THEN copyToLayer(b, l, bfault, lfault, name)
           ELSE [layer |-> l, err |-> "nil"]
      calls == IF c.err = "nil" /\ c.b THEN Append(c.calls, <<"copyToLayer", m.err>>)
               ELSE c.calls
  IN IF m.err # "nil" THEN Ret(b, m.layer, m.err, calls, NoHandle)
     ELSE LET d == FsRemove(m.layer, lfault, name)
              r == FsCreate(d.fs, lfault, name, now)
          IN Ret(b, r.fs, r.err,
                 calls \o << <<"layer.Remove", d.err>>, <<"layer.Create", r.err>> >>,
                 IF r.err = "nil" THEN FileHandle("layer", name) ELSE NoHandle)

\* Create that goes on to the layer's Create when the copy failed.
Create_IgnoreCopyError(b, l, bfault, lfault, name, now) ==
  LET c == isBaseFile(b, l, bfault, lfault, name)
      m == IF c.err = "nil" /\ c.b THEN copyToLayer(b, l, bfault, lfault, name)
           ELSE [layer |-> l, err |-> "nil"]
      calls == IF c.err = "nil" /\ c.b THEN Append(c.calls, <<"copyToLayer", m.err>>)
               ELSE c.calls
      r == FsCreate(m.layer, lfault, name, now)
  IN Ret(b, r.fs, r.err, Append(calls, <<"layer.Create", r.err>>),
         IF r.err = "nil" THEN FileHandle("layer", name) ELSE NoHandle)

\* Create that returns the error of the classification, as Chmod does.
Create_ChecksError(b, l, bfault, lfault, name, now) ==
  LET c == isBaseFile(b, l, bfault, lfault, name)
  IN IF c.err # "nil" THEN Ret(b, l, c.err, c.calls, NoHandle)
     ELSE LET m == IF c.b THEN copyToLayer(b, l, bfault, lfault, name)
                   ELSE [layer |-> l, err |-> "nil"]
              calls == IF c.b THEN Append(c.calls, <<"copyToLayer", m.err>>) ELSE c.calls
          IN IF m.err # "nil" THEN Ret(b, m.layer, m.err, calls, NoHandle)
             ELSE LET r == FsCreate(m.layer, lfault, name, now)
                  IN Ret(b, r.fs, r.err, Append(calls, <<"layer.Create", r.err>>),
                         IF r.err = "nil" THEN FileHandle("layer", name) ELSE NoHandle)

Create(b, l, bfault, lfault, name, now) ==
  LET c == isBaseFile(b, l, bfault, lfault, name)
      m == IF c.err = "nil" /\ c.b THEN copyToLayer(b, l, bfault, lfault, name)
           ELSE [layer |-> l, err |-> "nil"]
      calls == IF c.err = "nil" /\ c.b THEN Append(c.calls, <<"copyToLayer", m.err>>)
               ELSE c.calls
  IN IF m.err # "nil" THEN Ret(b, m.layer, m.err, calls, NoHandle)
     ELSE LET r == FsCreate(m.layer, lfault, name, now)
          IN Ret(b, r.fs, r.err, Append(calls, <<"layer.Create", r.err>>),
                 IF r.err = "nil" THEN FileHandle("layer", name) ELSE NoHandle)

\* The listing of a handle Open returned (UnionFile.Readdir for a merged
\* handle): the layer's entries of the directory, then the base's entries whose
\* names the layer does not have.  An entry is <<name, side, entry>>.
RECURSIVE ListFrom(_, _, _, _)
ListFrom(fs, side, dir, i) ==
  IF i > Len(PathSeq) THEN <<>>
  ELSE LET p == PathSeq[i]
       IN (IF Parent(p) = dir /\ fs[p] # None THEN << <<p, side, fs[p]>> >> ELSE <<>>)
          \o ListFrom(fs, side, dir, i + 1)
SelectSeqNotIn(s, names) == SelectSeq(s, LAMBDA e : e[1] \notin names)
NamesOf(s) == {s[i][1] : i \in 1..Len(s)}
Readdir(b, l, h) ==
  IF h.type = "File" THEN ListFrom(IF h.fs = "base" THEN b ELSE l, h.fs, h.name, 1)
  ELSE IF h.type = "UnionFile" THEN
    LET ls == IF h.layer THEN ListFrom(l, "layer", h.name, 1) ELSE <<>>
        bs == IF h.base THEN ListFrom(b, "base", h.name, 1) ELSE <<>>
    IN ls \o SelectSeqNotIn(bs, NamesOf(ls))
  ELSE <<>>

\* ------------------------------------------------------------------- state
\* base and layer are the two filesystems the union holds.  base0 is the base
\* as it was at construction.  pc and last are the caller's side: last is the
\* operation the caller has just been answered (its arguments, the condition
\* of the two filesystems while it ran, the layer's entry at its path before
\* it ran, and what it returned), until the caller drops it.
VARIABLES base, layer, base0, pc, last, thr
vars == <<base, layer, base0, pc, last, thr>>

\* Two callers that share one union without a lock, and where each of them is
\* in its operation: the classification it holds and whether its copy ran
\* over an entry the layer already had.
Threads == {"A", "B"}
IdleThread ==
  [pc |-> "idle", op |-> "none", name |-> "", num |-> 0, b |-> FALSE,
   err |-> "nil", over |-> FALSE]

NoOp ==
  [op |-> "none", name |-> "", newname |-> "", num |-> 0, flag |-> {},
   bfault |-> "ok", lfault |-> "ok", pre |-> None, orphan |-> FALSE,
   err |-> "nil", calls |-> <<>>, handle |-> NoHandle]

Init ==
  /\ base \in BaseStates
  /\ layer = EmptyFs
  /\ base0 = base
  /\ pc = "idle"
  /\ last = NoOp
  /\ thr = [t \in Threads |-> IdleThread]

Answer(op, name, newname, num, flag, bfault, lfault, r) ==
  /\ base' = r.base
  /\ layer' = r.layer
  /\ base0' = base0
  /\ thr' = thr
  /\ pc' = "done"
  /\ last' = [op |-> op, name |-> name, newname |-> newname, num |-> num, flag |-> flag,
              bfault |-> bfault, lfault |-> lfault, pre |-> layer[name],
              orphan |-> \E a \in Ancestors(name) : layer[a] = None,
              err |-> r.err, calls |-> r.calls, handle |-> r.handle]

CallChtimes ==
  /\ pc = "idle"
  /\ \E name \in Paths, mtime \in Times, f \in FaultPairs :
       Answer("Chtimes", name, "", mtime, {}, f[1], f[2],
              Chtimes(base, layer, f[1], f[2], name, mtime))

CallChmod ==
  /\ pc = "idle"
  /\ \E name \in Paths, mode \in Modes, f \in FaultPairs :
       Answer("Chmod", name, "", mode, {}, f[1], f[2],
              Chmod(base, layer, f[1], f[2], name, mode))

CallStat ==
  /\ pc = "idle"
  /\ \E name \in Paths, f \in FaultPairs :
       Answer("Stat", name, "", 0, {}, f[1], f[2],
              Stat(base, layer, f[1], f[2], name))

CallRename ==
  /\ pc = "idle"
  /\ \E oldname \in Paths, newname \in Paths, f \in FaultPairs :
       Answer("Rename", oldname, newname, 0, {}, f[1], f[2],
              Rename(base, layer, f[1], f[2], oldname, newname))

CallRemove ==
  /\ pc = "idle"
  /\ \E name \in Paths, f \in FaultPairs :
       Answer("Remove", name, "", 0, {}, f[1], f[2],
              Remove(base, layer, f[1], f[2], name))

CallRemoveAll ==
  /\ pc = "idle"
  /\ \E name \in Paths, f \in FaultPairs :
       Answer("RemoveAll", name, "", 0, {}, f[1], f[2],
              RemoveAll(base, layer, f[1], f[2], name))

CallOpenFile ==
  /\ pc = "idle"
  /\ \E name \in Paths, flag \in OpenFlags, perm \in Modes, now \in Times,
        f \in FaultPairs :
       Answer("OpenFile", name, "", 0, flag, f[1], f[2],
              OpenFile(base, layer, f[1], f[2], name, flag, perm, now))

CallOpen ==
  /\ pc = "idle"
  /\ \E name \in Paths, f \in FaultPairs :
       Answer("Open", name, "", 0, {}, f[1], f[2],
              Open(base, layer, f[1], f[2], name))

CallMkdir ==
  /\ pc = "idle"
  /\ \E name \in Paths, perm \in {CreatePerm}, f \in FaultPairs :
       Answer("Mkdir", name, "", 0, {}, f[1], f[2],
              Mkdir(base, layer, f[1], f[2], name, perm))

CallMkdirAll ==
  /\ pc = "idle"
  /\ \E name \in Paths, perm \in {CreatePerm}, f \in FaultPairs :
       Answer("MkdirAll", name, "", 0, {}, f[1], f[2],
              MkdirAll(base, layer, f[1], f[2], name, perm))

CallCreate ==
  /\ pc = "idle"
  /\ \E name \in Paths, now \in Times, f \in FaultPairs :
       Answer("Create", name, "", 0, {}, f[1], f[2],
              Create(base, layer, f[1], f[2], name, now))

\* The union keeps nothing of an operation once it has returned.
Return ==
  /\ pc = "done"
  /\ pc' = "idle"
  /\ last' = NoOp
  /\ UNCHANGED <<base, layer, base0, thr>>

Next ==
  \/ CallChtimes
  \/ CallChmod
  \/ CallStat
  \/ CallRename
  \/ CallRemove
  \/ CallRemoveAll
  \/ CallOpenFile
  \/ CallOpen
  \/ CallMkdir
  \/ CallMkdirAll
  \/ CallCreate
  \/ Return

Spec == Init /\ [][Next]_vars

\* ------------------------------------- two callers, statement by statement
\* Chtimes and Chmod run as the three calls they make on the shared
\* filesystems: the classification, the copy, the layer's Chtimes or Chmod.
\* `b, err := u.isBaseFile(name)`, and the return of its error.
ThreadClassify(t) ==
  /\ thr[t].pc = "idle"
  /\ \E op \in {"Chtimes", "Chmod"}, name \in Paths :
      \E num \in (IF op = "Chtimes" THEN Times ELSE Modes) :
        LET c == isBaseFile(base, layer, "ok", "ok", name)
        IN thr' = [thr EXCEPT ![t] =
                     [pc |-> IF c.err # "nil" THEN "done" ELSE "classified",
                      op |-> op, name |-> name, num |-> num, b |-> c.b,
                      err |-> c.err, over |-> FALSE]]
  /\ UNCHANGED <<base, layer, base0, pc, last>>

\* `if b { if err := u.copyToLayer(name); err != nil { return err } }`
ThreadCopy(t) ==
  /\ thr[t].pc = "classified"
  /\ thr[t].b
  /\ LET m == copyToLayer(base, layer, "ok", "ok", thr[t].name)
     IN /\ layer' = m.layer
        /\ thr' = [thr EXCEPT ![t].pc = IF m.err # "nil" THEN "done" ELSE "copied",
                              ![t].err = m.err,
                              ![t].over = layer[thr[t].name] # None]
  /\ UNCHANGED <<base, base0, pc, last>>

\* The mutant of the last call: it writes the entry back from the base's with
\* the one field changed.
ThreadMutate_WriteBack(t) ==
  /\ \/ thr[t].pc = "classified" /\ ~thr[t].b
     \/ thr[t].pc = "copied"
  /\ LET n == thr[t].name
         r == IF base[n] \notin Files \/ layer[n] \notin Files
              THEN [fs |-> layer, err |-> "nil"]
              ELSE IF thr[t].op = "Chtimes"
              THEN [fs |-> [layer EXCEPT ![n] = [base[n] EXCEPT !.mtime = thr[t].num]],
                    err |-> "nil"]
              ELSE [fs |-> [layer EXCEPT ![n] = [base[n] EXCEPT !.mode = thr[t].num]],
                    err |-> "nil"]
     IN /\ layer' = r.fs
        /\ thr' = [thr EXCEPT ![t].pc = "done", ![t].err = r.err]
  /\ UNCHANGED <<base, base0, pc, last>>

\* `return u.layer.Chtimes(name, atime, mtime)`, `return u.layer.Chmod(name, mode)`
ThreadMutate(t) ==
  /\ \/ thr[t].pc = "classified" /\ ~thr[t].b
     \/ thr[t].pc = "copied"
  /\ LET r == IF thr[t].op = "Chtimes"
              THEN FsChtimes(layer, "ok", thr[t].name, thr[t].num)
              ELSE FsChmod(layer, "ok", thr[t].name, thr[t].num)
     IN /\ layer' = r.fs
        /\ thr' = [thr EXCEPT ![t].pc = "done", ![t].err = r.err]
  /\ UNCHANGED <<base, base0, pc, last>>

ConcNext == \E t \in Threads : ThreadClassify(t) \/ ThreadCopy(t) \/ ThreadMutate(t)

ConcSpec == Init /\ [][ConcNext]_vars

TypeOK ==
  /\ base \in FsStates
  /\ layer \in FsStates
  /\ pc \in {"idle", "done"}
  /\ last.err \in Errors \cup {"nil"}

\* ----------------------------------------------------- reading `last`
Done(ops) == pc = "done" /\ last.op \in ops
\* Both filesystems answered the metadata calls of the last operation.
Answering == last.bfault \notin {"stat", "io"} /\ last.lfault \notin {"stat", "io"}
FaultFree == last.bfault = "ok" /\ last.lfault = "ok"
CallNames == {last.calls[i][1] : i \in 1..Len(last.calls)}
Called(c) == c \in CallNames
\* The error of the first call named c: "nil" when it succeeded, "-" when it
\* was not made.
ErrOf(c) ==
  IF Called(c)
  THEN last.calls[CHOOSE i \in 1..Len(last.calls) :
                    /\ last.calls[i][1] = c
                    /\ \A j \in 1..(i - 1) : last.calls[j][1] # c][2]
  ELSE "-"
Failed(c) == Called(c) /\ ErrOf(c) # "nil"

\* The path of the last operation was BaseOnly when the operation began: the
\* layer reported it absent and the base reported its entry.
WasBaseOnly == last.pre = None /\ base0[last.name] # None /\ Answering
Mutating(flag) == flag \cap {"O_WRONLY", "O_RDWR", "O_APPEND", "O_CREATE", "O_TRUNC"} # {}

\* ------------------------------------------------------------------- C1
\* C1: whatever operations ran, on whatever paths and with the filesystems in
\* whatever condition, the base holds exactly the entries, contents and
\* metadata it held at construction.
C1_BaseNeverMutated == base = base0

\* An operation asked to truncate a file that only the base had, and succeeded.
C1_Witness ==
  /\ Done({"OpenFile"})
  /\ "O_TRUNC" \in last.flag
  /\ WasBaseOnly
  /\ last.err = "nil"
  /\ base0[last.name].content # 0
  /\ layer[last.name].content = 0

\* ------------------------------------------------------------------- C2
\* What a successful mutating operation leaves in the layer at a path only the
\* base had: the base's entry, but for the fields the operation sets.
C2_Expected(e) ==
  IF e = Dir THEN {Dir}
  ELSE IF last.op = "Chtimes" THEN {[e EXCEPT !.mtime = last.num]}
  ELSE IF last.op = "Chmod" THEN {[e EXCEPT !.mode = last.num]}
  ELSE IF last.op = "Create" \/ "O_TRUNC" \in last.flag
    THEN {[e EXCEPT !.content = 0, !.mtime = t] : t \in Times}
  ELSE {e}

\* C2: after a successful Chtimes, Chmod, Create or OpenFile with a mutating
\* flag on a path only the base had, the layer has the path, with the base's
\* content and metadata but for the fields the operation changed, and the base
\* still has its entry as it was.
C2_CopyOnWrite ==
  ( /\ \/ Done({"Chtimes", "Chmod", "Create"})
       \/ Done({"OpenFile"}) /\ Mutating(last.flag)
    /\ WasBaseOnly
    /\ last.err = "nil" )
  => /\ layer[last.name] \in C2_Expected(base0[last.name])
     /\ base[last.name] = base0[last.name]

\* Chmod changed the permission bits of a file only the base had.
C2_Witness ==
  /\ Done({"Chmod"})
  /\ WasBaseOnly
  /\ last.err = "nil"
  /\ base0[last.name] \in Files
  /\ last.num # base0[last.name].mode
  /\ layer[last.name] = [base0[last.name] EXCEPT !.mode = last.num]

\* ------------------------------------------------------------------- C3
C3_Step ==
  ( /\ pc' = "done"
    /\ last'.op \in {"Rename", "Remove", "RemoveAll"}
    /\ layer[last'.name] = None
    /\ base[last'.name] # None
    /\ last'.bfault \notin {"stat", "io"} /\ last'.lfault \notin {"stat", "io"} )
  => /\ last'.err = "EPERM"
     /\ layer' = layer
     /\ base' = base
     /\ \A i \in 1..Len(last'.calls) :
          last'.calls[i][1] \notin {"layer.Rename", "copyToLayer"}

\* C3: Rename to any path, Remove and RemoveAll of a BaseOnly path each return
\* EPERM and change neither filesystem; the path is not copied into the layer
\* and the layer's Rename is not called.
C3_BaseOnlyProtected == [][C3_Step]_vars

\* A rename of a BaseOnly path to another path was refused.
C3_Witness ==
  /\ Done({"Rename"})
  /\ WasBaseOnly
  /\ last.newname # last.name
  /\ last.err = "EPERM"

\* ------------------------------------------------------------------- C4
C4_Step ==
  ( /\ pc' = "done"
    /\ last'.op = "Remove"
    /\ layer[last'.name] # None
    /\ base[last'.name] # None
    /\ last'.bfault \notin {"stat", "io"} /\ last'.lfault \notin {"stat", "io"} )
  => LET n == last'.name
     IN /\ base' = base
        /\ last'.err = "nil" <=> ~HasChildren(layer, n)
        /\ last'.err # "nil" => layer' = layer
        /\ last'.err = "nil" =>
             /\ layer' = [layer EXCEPT ![n] = None]
             /\ Stat(base', layer', "ok", "ok", n).err = "nil"
             /\ Stat(base', layer', "ok", "ok", n).handle = StatInfo("base", base[n])
             /\ isBaseFile(base', layer', "ok", "ok", n).b
             /\ isBaseFile(base', layer', "ok", "ok", n).err = "nil"

\* C4: Remove of a path both filesystems have removes the layer's entry alone
\* (it succeeds unless that entry is a directory that is not empty) and leaves
\* the base as it was; a Stat of the path then succeeds with the base's
\* metadata and the path is classified BaseOnly again.
C4_RemoveUncovers == [][C4_Step]_vars

\* Remove took a file both filesystems had out of the layer.
C4_Witness ==
  /\ Done({"Remove"})
  /\ last.pre \in Files
  /\ base0[last.name] \in Files
  /\ Answering
  /\ last.err = "nil"
  /\ layer[last.name] = None
  /\ base[last.name] # None

\* ------------------------------------------------------------------- C5
\* C5: Stat returns the layer's metadata when the layer has the path; it asks
\* the base exactly when the layer answered ENOENT and then returns the
\* base's answer, metadata or error, as it is; any other error of the layer
\* is returned with the base not asked.  So metadata of the base is returned
\* only after the layer answered ENOENT.
C5_StatFallback ==
  Done({"Stat"}) =>
    /\ Called("layer.Stat")
    /\ ErrOf("layer.Stat") = FsStat(layer, last.lfault, last.name).err
    /\ Called("base.Stat") <=> ErrOf("layer.Stat") = "ENOENT"
    /\ ErrOf("layer.Stat") = "nil" =>
         last.err = "nil" /\ last.handle = StatInfo("layer", layer[last.name])
    /\ ErrOf("layer.Stat") = "ENOENT" =>
         /\ last.err = FsStat(base, last.bfault, last.name).err
         /\ last.err = "nil" => last.handle = StatInfo("base", base[last.name])
         /\ last.err # "nil" => last.handle = NoHandle
    /\ ErrOf("layer.Stat") \notin {"nil", "ENOENT"} =>
         last.err = ErrOf("layer.Stat") /\ last.handle = NoHandle
    /\ (last.handle # NoHandle /\ last.handle.fs = "base") =>
         FsStat(layer, last.lfault, last.name).err = "ENOENT"

\* The layer answered Stat with an error other than ENOENT while the base had
\* the path, and Stat returned that error.
C5_Witness ==
  /\ Done({"Stat"})
  /\ last.lfault = "io"
  /\ last.bfault = "ok"
  /\ base[last.name] # None
  /\ last.err = "EIO"
  /\ ~Called("base.Stat")

\* ------------------------------------------------------------------- C6
\* The claim as written: AlreadyExists over a directory of the base; over a
\* path the base does not have, success and a directory in the layer whatever
\* the layer held there.
C6_OriginalStep ==
  ( /\ pc' = "done"
    /\ last'.op \in {"Mkdir", "MkdirAll"}
    /\ last'.bfault = "ok" /\ last'.lfault = "ok" )
  => LET n == last'.name
     IN /\ base[n] = Dir => last'.err = "EEXIST" /\ layer' = layer
        /\ base[n] = None =>
             /\ last'.err = "nil"
             /\ layer'[n] = Dir
             /\ ~isBaseFile(base', layer', "ok", "ok", n).b
C6_Original == [][C6_OriginalStep]_vars

C6_Step ==
  ( /\ pc' = "done"
    /\ last'.op \in {"Mkdir", "MkdirAll"}
    /\ last'.bfault \notin {"stat", "io"} )
  => LET n == last'.name
         blocked == \/ last'.lfault = "io"
                    \/ layer[n].kind = "file"
                    \/ AncestorIsFile(layer, n)
     IN /\ base[n] = Dir => last'.err = "EEXIST" /\ layer' = layer
        /\ base[n] = None =>
             /\ last'.err = "nil" <=> ~blocked
             /\ last'.err = "nil" =>
                  /\ layer'[n] = Dir
                  /\ ~isBaseFile(base', layer', "ok", "ok", n).b
                  /\ \A a \in Ancestors(n) : layer'[a] = Dir
                  /\ \A q \in Paths \ ({n} \cup Ancestors(n)) : layer'[q] = layer[q]
             /\ last'.err # "nil" =>
                  /\ layer' = layer
                  /\ \E i \in 1..Len(last'.calls) :
                       last'.calls[i] = <<"layer.MkdirAll", last'.err>>

\* C6 (amended): Mkdir and MkdirAll return EEXIST and leave the layer as it
\* was when the path is a directory in the base; when the base does not have
\* the path they return what the layer's MkdirAll returns: they succeed, and
\* the path (with its missing ancestors) becomes a directory in the layer,
\* classified OverlayPresent, unless the layer holds a file at the path or at
\* an ancestor of it or the layer's call fails, and then the layer's error is
\* returned and the layer is as it was.
C6_MkdirOverBase == [][C6_Step]_vars

\* Mkdir or MkdirAll made a directory, and its parent, that neither
\* filesystem had.
C6_Witness ==
  /\ Done({"Mkdir", "MkdirAll"})
  /\ FaultFree
  /\ base[last.name] = None
  /\ last.pre = None
  /\ last.name # "/d"
  /\ last.err = "nil"
  /\ layer[last.name] = Dir

\* ------------------------------------------------------------------- C7
Listed(side, fs, d) == {<<p, side, fs[p]>> : p \in {q \in Children(d) : fs[q] # None}}
SeqRange(q) == {q[i] : i \in 1..Len(q)}

\* C7: Open of a directory both filesystems have returns a UnionFile made of
\* the base's and the layer's handle of it; its listing holds every name the
\* base or the layer has in the directory exactly once, with the layer's
\* entry where both have the name.
C7_MergedListing ==
  ( /\ Done({"Open"})
    /\ FaultFree
    /\ base[last.name] = Dir
    /\ layer[last.name] = Dir )
  => LET d == last.name
         ls == Readdir(base, layer, last.handle)
     IN /\ last.err = "nil"
        /\ last.handle = UnionFile(d, TRUE, TRUE)
        /\ NamesOf(ls) =
             {q \in Children(d) : base[q] # None} \cup {q \in Children(d) : layer[q] # None}
        /\ Len(ls) = Cardinality(NamesOf(ls))
        /\ SeqRange(ls) =
             Listed("layer", layer, d)
               \cup {e \in Listed("base", base, d) : layer[e[1]] = None}

\* The directory was opened with one name only in the base and one name in
\* both, the two entries differing.
C7_Witness ==
  /\ Done({"Open"})
  /\ FaultFree
  /\ last.name = "/d"
  /\ base["/d"] = Dir /\ layer["/d"] = Dir
  /\ base["/d/x"] # None /\ layer["/d/x"] # None /\ base["/d/x"] # layer["/d/x"]
  /\ base["/d/y"] # None /\ layer["/d/y"] = None
  /\ Len(Readdir(base, layer, last.handle)) = 2

\* ------------------------------------------------------------------- C8
\* A call failed: it answered an error other than not-found, which is the
\* ordinary answer of a lookup.
C8_Failure(c) == c[2] \notin {"nil", "ENOENT"}
\* The two failures the union may keep to itself: the base's Open for a merged
\* directory handle, and the look at the base in Mkdir and MkdirAll.
C8_Excepted(c) ==
  \/ last.op = "Open" /\ c[1] = "base.Open" /\ Called("IsDir(layer)")
  \/ last.op \in {"Mkdir", "MkdirAll"} /\ c[1] = "IsDir(base)"

\* C8: the error of every failed call to the base or the layer made inside an
\* operation is the error the operation returns, but for the two exceptions:
\* no operation succeeds, or returns another error, after a call inside it
\* failed.
C8_ErrorsPropagate ==
  pc = "done" =>
    \A i \in 1..Len(last.calls) :
      (C8_Failure(last.calls[i]) /\ ~C8_Excepted(last.calls[i]))
        => last.err = last.calls[i][2]

\* ------------------------------------------------------------------- C9
Classification(b, l, p) ==
  LET c == isBaseFile(b, l, "ok", "ok", p)
  IN IF ~c.b THEN "OverlayPresent" ELSE IF c.err = "nil" THEN "BaseOnly" ELSE "Absent"

\* The claim as written: a path of the base that is OverlayPresent is never
\* BaseOnly again.
C9_Original ==
  [][\A p \in Paths :
       (base[p] # None /\ Classification(base, layer, p) = "OverlayPresent")
         => Classification(base', layer', p) # "BaseOnly"]_vars

C9_Step ==
  \A p \in Paths :
    ( /\ Classification(base, layer, p) = "OverlayPresent"
      /\ Classification(base', layer', p) = "BaseOnly" )
    => /\ pc' = "done"
       /\ last'.err = "nil"
       /\ last'.op \in {"Remove", "RemoveAll", "Rename"}
       /\ last'.name = p \/ p \in Descendants(last'.name)

\* C9 (amended): a path of the base that is OverlayPresent becomes BaseOnly
\* again only by a successful Remove, RemoveAll or Rename of that path or of
\* a directory above it, which takes its entry out of the layer; no other
\* operation, and no failed one, makes it BaseOnly again.
C9_RevertOnlyByRemoval == [][C9_Step]_vars

\* A rename moved the layer's entry away from a path the base has.
C9_Witness ==
  /\ Done({"Rename"})
  /\ last.err = "nil"
  /\ last.newname # last.name
  /\ last.pre # None
  /\ Classification(base, layer, last.name) = "BaseOnly"

\* ------------------------------------------------------------------ C10
\* C10: when the copy into the layer fails inside Chtimes, Chmod, Create or a
\* mutating OpenFile, the operation returns the copy's error and does not go
\* on: the layer's Chtimes, Chmod, Create or OpenFile is not called and the
\* layer's entry at the path is as it was.  The copy fails for a BaseOnly path
\* whenever the base's file cannot be read or the layer cannot be written.
C10_CopyFailureAborts ==
  ( \/ Done({"Chtimes", "Chmod", "Create"})
    \/ Done({"OpenFile"}) /\ Mutating(last.flag) )
  => /\ Failed("copyToLayer") =>
          /\ last.err = ErrOf("copyToLayer")
          /\ CallNames \cap {"layer.Chtimes", "layer.Chmod", "layer.Create",
                             "layer.OpenFile"} = {}
          /\ layer[last.name] = last.pre
          /\ last.handle = NoHandle
     /\ ( /\ WasBaseOnly
          /\ \/ last.bfault = "data"
             \/ last.lfault = "data"
             \/ AncestorIsFile(layer, last.name) )
        => Failed("copyToLayer")

\* Create of a BaseOnly path whose file the base could not read.
C10_Witness ==
  /\ Done({"Create"})
  /\ WasBaseOnly
  /\ last.bfault = "data"
  /\ Failed("copyToLayer")
  /\ last.err = "EIO"
  /\ layer[last.name] = None

\* ------------------------------------------------------------------ C11

Operations ==
  {"Chtimes", "Chmod", "Stat", "Rename", "Remove", "RemoveAll", "OpenFile",
   "Open", "Mkdir", "MkdirAll", "Create"}

\* The operation `op` of the union over base b and layer l.
Apply(op, b, l, bfault, lfault, name, newname, num, flag, perm, now) ==
  CASE op = "Chtimes" -> Chtimes(b, l, bfault, lfault, name, num)
    [] op = "Chmod" -> Chmod(b, l, bfault, lfault, name, num)
    [] op = "Stat" -> Stat(b, l, bfault, lfault, name)
    [] op = "Rename" -> Rename(b, l, bfault, lfault, name, newname)
    [] op = "Remove" -> Remove(b, l, bfault, lfault, name)
    [] op = "RemoveAll" -> RemoveAll(b, l, bfault, lfault, name)
    [] op = "OpenFile" -> OpenFile(b, l, bfault, lfault, name, flag, perm, now)
    [] op = "Open" -> Open(b, l, bfault, lfault, name)
    [] op = "Mkdir" -> Mkdir(b, l, bfault, lfault, name, CreatePerm)
    [] op = "MkdirAll" -> MkdirAll(b, l, bfault, lfault, name, CreatePerm)
    [] op = "Create" -> Create(b, l, bfault, lfault, name, now)

\* The inputs an operation takes besides the path: new name, number (time or
\* mode), flag word, permission bits and the time of the call.
Inputs(op) ==
  [newname : IF op = "Rename" THEN Paths ELSE {""},
   num : CASE op = "Chtimes" -> Times [] op = "Chmod" -> Modes [] OTHER -> {0},
   flag : IF op = "OpenFile" THEN OpenFlags ELSE {{}},
   perm : IF op = "OpenFile" THEN Modes ELSE {CreatePerm},
   now : IF op \in {"OpenFile", "Create"} THEN Times ELSE {0}]

\* Between two operations: every operation of `ops` on a path the layer has
\* and reports, the Open that merges a directory excepted, would answer and
\* leave the layer exactly as it would over a base without any entry and in
\* order.  Every base agreeing with the empty one, any two bases agree.
C11_Same(ops) ==
  pc = "idle" =>
    \A name \in {p \in Paths : layer[p] # None}, op \in ops :
      (op = "Open" /\ layer[name] = Dir) \/
      \A in \in Inputs(op), lfault \in {"ok", "data"} :
        LET r2 == Apply(op, EmptyFs, layer, "ok", lfault, name,
                        in.newname, in.num, in.flag, in.perm, in.now)
        IN \A bfault \in {f \in Faults : <<f, lfault>> \in FaultPairs} :
             LET r1 == Apply(op, base, layer, bfault, lfault, name,
                             in.newname, in.num, in.flag, in.perm, in.now)
             IN r1.layer = r2.layer /\ r1.err = r2.err /\ r1.handle = r2.handle

\* The claim as written: every operation but the merging Open.
C11_Original == C11_Same(Operations)

\* C11 (amended): for a path that has an entry in the layer, the result and
\* the effect on the layer of every operation on it other than the merging
\* Open, Mkdir and MkdirAll are the same for any two bases: the base's entry
\* at the path is invisible to them.
C11_Shadowing == C11_Same(Operations \ {"Mkdir", "MkdirAll"})

\* A path that both filesystems have was renamed: the base's entry, which
\* would have made the rename fail with EPERM, was not seen.
C11_Witness ==
  /\ Done({"Rename"})
  /\ last.pre # None
  /\ base[last.name] # None
  /\ last.newname # last.name
  /\ last.err = "nil"
  /\ layer[last.name] = None

\* ------------------------------------------------------------------ C12
\* The field of the layer's entry that the operation of caller t sets.
FieldOf(t) ==
  IF thr[t].op = "Chtimes" THEN layer[thr[t].name].mtime ELSE layer[thr[t].name].mode
\* Caller t has returned without error and the layer's file does not carry
\* what it set, although no other caller set the same field of that file.
Lost(t) ==
  /\ thr[t].pc = "done"
  /\ thr[t].err = "nil"
  /\ layer[thr[t].name] \in Files
  /\ FieldOf(t) # thr[t].num
  /\ \A u \in Threads \ {t} : ~(thr[u].name = thr[t].name /\ thr[u].op = thr[t].op)

\* C12: between two callers of Chtimes and Chmod that run without a lock, the
\* classification and the calls that depend on it are separate steps; what a
\* caller has set and returned from is lost only when the other caller, which
\* had classified the same path as BaseOnly, copied the base's entry over the
\* entry the layer had by then (and C12_Witness is such a state).
C12_LostByStaleCopy ==
  \A t \in Threads :
    Lost(t) => \E u \in Threads \ {t} :
                 /\ thr[u].name = thr[t].name
                 /\ thr[u].b
                 /\ thr[u].over

\* Both callers classified one file of the base as BaseOnly; the first
\* materialized it, set its time and returned; the second then copied the
\* base's file over it and set the mode: the time the first set is gone.
C12_Witness ==
  \E t \in Threads, u \in Threads :
    /\ t # u
    /\ thr[t].pc = "done" /\ thr[t].op = "Chtimes" /\ thr[t].err = "nil" /\ thr[t].b
    /\ thr[u].pc = "done" /\ thr[u].op = "Chmod" /\ thr[u].err = "nil" /\ thr[u].b
    /\ thr[u].name = thr[t].name
    /\ thr[u].over
    /\ base[thr[t].name] \in Files
    /\ thr[t].num # base[thr[t].name].mtime
    /\ layer[thr[t].name] = [base[thr[t].name] EXCEPT !.mode = thr[u].num]

\* ------------------------------------------------------------------ C13
\* C13: when the layer's Stat of the classification fails with an error other
\* than ENOENT, the base is not asked, and Chtimes, Chmod, Rename, OpenFile,
\* Open and Create return that error without copying to the layer and
\* without changing the layer's entry at the path.
C13_OverlayErrorAborts ==
  ( /\ Done({"Chtimes", "Chmod", "Rename", "OpenFile", "Open", "Create"})
    /\ ErrOf("layer.Stat") \notin {"nil", "ENOENT"} )
  => /\ last.err = ErrOf("layer.Stat")
     /\ ~Called("base.Stat")
     /\ ~Called("copyToLayer")
     /\ layer[last.name] = last.pre

\* What the code does instead, at its worst: the layer's lookup of a file it
\* has fails, the base has the path too, and the operation copies the base's
\* entry over the layer's file and succeeds.
C13_Overwritten ==
  /\ Done({"Chtimes", "Chmod", "Create"})
  /\ last.lfault = "stat"
  /\ last.pre \in Files
  /\ base[last.name] \in Files
  /\ Called("copyToLayer")
  /\ last.err = "nil"
  /\ last.pre.content # base[last.name].content

\* ------------------------------------------------------------------ C14
\* C14: in a run of operations one after the other, the copy to the layer is
\* called for a path only while the layer has no entry at that path, so that
\* an entry of the layer is never replaced by the base's.
C14_CopyOnlyWhenAbsent ==
  (pc = "done" /\ Called("copyToLayer"))
  => last.pre = None

\* ------------------------------------------------------------------ C15
C15_Step ==
  ( /\ pc' = "done"
    /\ \/ last'.op \in {"Stat", "Open"}
       \/ last'.op = "OpenFile" /\ ~Mutating(last'.flag) )
  => LET n == last'.name
         names == {last'.calls[i][1] : i \in 1..Len(last'.calls)}
         answering == last'.bfault \notin {"stat", "io"} /\ last'.lfault \notin {"stat", "io"}
     IN /\ layer' = layer
        /\ base' = base
        /\ "copyToLayer" \notin names
        /\ (last'.op = "OpenFile" /\ answering) =>
             /\ (layer[n] = None /\ base[n] # None) =>
                  /\ "base.OpenFile" \in names
                  /\ "layer.OpenFile" \notin names
                  /\ last'.err = "nil" => last'.handle = FileHandle("base", n)
             /\ layer[n] # None =>
                  /\ "layer.OpenFile" \in names
                  /\ "base.OpenFile" \notin names
                  /\ last'.err = "nil" => last'.handle = FileHandle("layer", n)

\* C15: Stat, Open, and OpenFile with none of the flags O_WRONLY, O_RDWR,
\* O_APPEND, O_CREATE, O_TRUNC leave the base and the layer as they were, for
\* every path and in every state, and do not copy to the layer; such an
\* OpenFile opens the path on the base when it is BaseOnly and on the layer
\* when the layer has it.
C15_ReadsChangeNothing == [][C15_Step]_vars

\* A file that only the base had was opened for reading, on the base, and
\* the layer still does not have it.
C15_Witness ==
  /\ Done({"OpenFile"})
  /\ ~Mutating(last.flag)
  /\ WasBaseOnly
  /\ base[last.name] \in Files
  /\ last.err = "nil"
  /\ last.handle = FileHandle("base", last.name)
  /\ layer[last.name] = None

\* ------------------------------------------------------------------ C16
C16_Step ==
  \A p \in Paths :
    Classification(base, layer, p) = "OverlayPresent"
    => \/ Classification(base', layer', p) = "OverlayPresent"
       \/ /\ pc' = "done"
          /\ last'.op \in {"Remove", "RemoveAll", "Rename"}
          /\ last'.err = "nil"
          /\ last'.name = p \/ p \in Descendants(last'.name)
          /\ layer'[p] = None

\* C16: a path that is OverlayPresent is classified OverlayPresent after every
\* step, unless the step took its entry out of the layer, and the only steps
\* that do are Remove, RemoveAll and Rename of that path or of a directory
\* above it: Stat, Open, OpenFile, Chtimes, Chmod, Create, Mkdir and MkdirAll
\* of the path, and all operations on other paths, leave it OverlayPresent.
C16_StaysOverlayPresent == [][C16_Step]_vars

\* The layer had two entries in one directory; one was removed by RemoveAll
\* and the other is still a file of the layer.
C16_Witness ==
  /\ Done({"RemoveAll"})
  /\ last.err = "nil"
  /\ last.pre # None
  /\ layer[last.name] = None
  /\ \E p \in Paths \ {last.name} :
       /\ p \notin Descendants(last.name)
       /\ layer[p] \in Files
       /\ Classification(base, layer, p) = "OverlayPresent"

\* ------------------------------------------------------------------ C17
\* C17: Open of a path that is a directory in the layer opens it on the base
\* and on the layer and fails only when both opens fail, with the layer's
\* error: the base's error is never returned.  Open of a path the layer has
\* as a file opens the layer alone; Open of a BaseOnly path opens the base
\* alone and returns no merged handle.
C17_OpenErrors ==
  (Done({"Open"}) /\ last.lfault \notin {"stat", "io"})
  => /\ last.pre = Dir =>
          /\ Called("base.Open") /\ Called("layer.Open")
          /\ last.err # "nil" <=> (Failed("base.Open") /\ Failed("layer.Open"))
          /\ last.err # "nil" => last.err = ErrOf("layer.Open") /\ last.handle = NoHandle
          /\ last.err = "nil" =>
               last.handle = UnionFile(last.name, ~Failed("base.Open"), ~Failed("layer.Open"))
     /\ last.pre \in Files =>
          /\ Called("layer.Open") /\ ~Called("base.Open")
          /\ last.err = ErrOf("layer.Open")
          /\ last.err = "nil" => last.handle = FileHandle("layer", last.name)
     /\ WasBaseOnly =>
          /\ Called("base.Open") /\ ~Called("layer.Open") /\ ~Called("IsDir(layer)")
          /\ last.err = ErrOf("base.Open")
          /\ last.handle \in {NoHandle, FileHandle("base", last.name)}

\* A directory of the layer that the base does not have, opened while the
\* layer could not open anything: both opens failed, and Open returned the
\* layer's EIO, not the base's ENOENT.
C17_Witness ==
  /\ Done({"Open"})
  /\ last.pre = Dir
  /\ ErrOf("base.Open") = "ENOENT"
  /\ ErrOf("layer.Open") = "EIO"
  /\ last.err = "EIO"

\* The base could not open a directory both filesystems have: Open returned
\* a merged handle with the layer's half only.
C17_BaseErrorDropped ==
  /\ Done({"Open"})
  /\ last.pre = Dir
  /\ ErrOf("base.Open") = "EIO"
  /\ last.err = "nil"
  /\ last.handle = UnionFile(last.name, FALSE, TRUE)

\* ------------------------------------------------------------------ C18
\* C18: in every state between two operations, for every path and condition
\* of the filesystems, Mkdir and MkdirAll return the same error, make the
\* same calls and leave the same layer and base; each of them that did not
\* return EEXIST for a directory of the base called the layer's MkdirAll, and
\* after its success the path and the directories above it, missing before
\* or not, are directories of the layer.
C18_MkdirIsMkdirAll ==
  /\ pc = "idle" =>
       \A name \in Paths, f \in FaultPairs :
         Mkdir(base, layer, f[1], f[2], name, CreatePerm)
           = MkdirAll(base, layer, f[1], f[2], name, CreatePerm)
  /\ Done({"Mkdir", "MkdirAll"}) =>
       /\ Called("layer.MkdirAll") \/ (last.err = "EEXIST" /\ base[last.name] = Dir)
       /\ last.err = "nil" =>
            /\ ErrOf("layer.MkdirAll") = "nil"
            /\ layer[last.name] = Dir
            /\ \A a \in Ancestors(last.name) : layer[a] = Dir

\* Mkdir of a path under a directory the layer did not have: it succeeded,
\* and the directory above is in the layer too.
C18_Witness ==
  /\ Done({"Mkdir"})
  /\ last.orphan
  /\ last.pre = None
  /\ last.err = "nil"
  /\ layer[last.name] = Dir
  /\ layer[Parent(last.name)] = Dir

\* ------------------------------------------------------------------ C19
C19_Step ==
  ( /\ pc' = "done"
    /\ layer[last'.name] = None
    /\ base[last'.name] = None
    /\ last'.bfault \notin {"stat", "io"} /\ last'.lfault \notin {"stat", "io"} )
  => /\ last'.op \in {"Chtimes", "Chmod", "Rename", "Open", "OpenFile"} =>
          /\ last'.calls = << <<"layer.Stat", "ENOENT">>, <<"base.Stat", "ENOENT">> >>
          /\ last'.err = "ENOENT"
          /\ last'.handle = NoHandle
          /\ layer' = layer /\ base' = base
     /\ last'.op \in {"Remove", "RemoveAll"} =>
          /\ last'.err = "ENOENT"
          /\ layer' = layer /\ base' = base

\* C19: for a path that neither filesystem has, Chtimes, Chmod, Rename, Open
\* and OpenFile with any flags, O_CREATE included, return the ENOENT of the
\* base's lookup, and Remove and RemoveAll return ENOENT; none of them changes
\* the layer, so that OpenFile with O_CREATE does not create the file.
C19_AbsentStaysAbsent == [][C19_Step]_vars

\* OpenFile with O_CREATE of a path neither filesystem had: ENOENT, and the
\* layer still does not have it.
C19_Witness ==
  /\ Done({"OpenFile"})
  /\ "O_CREATE" \in last.flag
  /\ FaultFree
  /\ last.pre = None
  /\ base[last.name] = None
  /\ ~AncestorIsFile(layer, last.name)
  /\ last.err = "ENOENT"
  /\ layer[last.name] = None

\* ------------------------------------------------------------------ C20
\* C20: Create calls the layer's Create last, and returns its result, unless
\* the copy to the layer failed.  For a path neither filesystem has, the
\* ENOENT of the classification is ignored, nothing is copied, and when the
\* layer's Create succeeds the path is a new empty file of the layer; a
\* BaseOnly path is copied to the layer first and then created over the copy,
\* which empties it; a path the layer has is created on the layer directly.
C20_CreateEndsOnLayer ==
  Done({"Create"})
  => LET n == Len(last.calls)
     IN /\ Called("layer.Create") <=> ~Failed("copyToLayer")
        /\ Called("layer.Create") =>
             /\ last.calls[n] = <<"layer.Create", last.err>>
             /\ last.err = "nil" =>
                  /\ layer[last.name] \in Files
                  /\ layer[last.name].content = 0
                  /\ last.handle = FileHandle("layer", last.name)
        /\ (last.pre = None /\ base[last.name] = None /\ Answering) =>
             /\ last.calls = << <<"layer.Stat", "ENOENT">>, <<"base.Stat", "ENOENT">>,
                                <<"layer.Create", last.err>> >>
             /\ last.err = "nil" <=> (last.lfault = "ok" /\ ~AncestorIsFile(layer, last.name))
             /\ last.err = "nil" =>
                  \E t \in Times : layer[last.name] = FileEntry(0, CreatePerm, t)
             /\ last.err # "nil" => layer[last.name] = None
        /\ WasBaseOnly =>
             /\ n >= 3
             /\ last.calls[1] = <<"layer.Stat", "ENOENT">>
             /\ last.calls[2] = <<"base.Stat", "nil">>
             /\ last.calls[3][1] = "copyToLayer"
             /\ n = IF Failed("copyToLayer") THEN 3 ELSE 4
             /\ (last.err = "nil" /\ base[last.name] \in Files) =>
                  \E t \in Times :
                    layer[last.name] = [base[last.name] EXCEPT !.content = 0, !.mtime = t]
        /\ (last.pre # None /\ last.lfault \notin {"stat", "io"}) =>
             last.calls = << <<"layer.Stat", "nil">>, <<"layer.Create", last.err>> >>

\* Create of a path neither filesystem had: the base's ENOENT was ignored and
\* the path is an empty file of the layer.
C20_Witness ==
  /\ Done({"Create"})
  /\ FaultFree
  /\ last.pre = None
  /\ base[last.name] = None
  /\ ErrOf("base.Stat") = "ENOENT"
  /\ ~Called("copyToLayer")
  /\ last.err = "nil"
  /\ layer[last.name] \in Files
  /\ layer[last.name].content = 0

\* Create of a file only the base had: copied, then emptied in the layer.
C20_Materialized ==
  /\ Done({"Create"})
  /\ WasBaseOnly
  /\ ErrOf("copyToLayer") = "nil"
  /\ last.err = "nil"
  /\ base[last.name].content # 0
  /\ layer[last.name].content = 0
  /\ layer[last.name].mode = base[last.name].mode

====
